---- MODULE Spec2Model ----
(***************************************************************************)
(* A model of src/main.py: the HTTP server (CatFramework on HTTPServer),   *)
(* the UDP relay inside do_POST, the UDP listener run_socket_server and    *)
(* MongoDBClient.save_message_from_udp_data.                               *)
(*                                                                         *)
(* Text is a sequence of code points, a byte string a sequence of numbers  *)
(* in 0..255.                                                              *)
(***************************************************************************)
EXTENDS Integers, Sequences, FiniteSets, TLC

(***************************** bounds *************************************)
\* pieces concatenated into one raw datagram of SpecDecode
MaxPieces == 3
\* connections the HTTP server sees in one run
MaxConns == 2
\* datagrams in flight between the relay and the listener
MaxNet == 2
\* datagrams the listener takes from its socket in one run
MaxRecv == 2

(***************************** text ***************************************)
\* code point of a character written in the model
Ord(c) ==
    CASE c = " " -> 32 [] c = "%" -> 37 [] c = "&" -> 38 [] c = "+" -> 43
      [] c = "-" -> 45 [] c = "/" -> 47 [] c = "0" -> 48 [] c = "2" -> 50
      [] c = "3" -> 51 [] c = "5" -> 53 [] c = "6" -> 54 [] c = "=" -> 61
      [] c = "B" -> 66 [] c = "D" -> 68 [] c = "a" -> 97 [] c = "b" -> 98
      [] c = "d" -> 100 [] c = "e" -> 101 [] c = "j" -> 106 [] c = "k" -> 107
      [] c = "n" -> 110 [] c = "t" -> 116 [] c = "v" -> 118 [] c = "x" -> 120
      [] c = ":" -> 58 [] c = "." -> 46 [] c = "?" -> 63 [] c = "#" -> 35
      [] c = "A" -> 65 [] c = "_" -> 95 [] c = "~" -> 126 [] c = "1" -> 49
      [] c = "4" -> 52 [] c = "7" -> 55 [] c = "8" -> 56 [] c = "9" -> 57

Str(s) == [i \in 1..Len(s) |-> Ord(s[i])]

\* the characters the code names
AMP == Ord("&")
EQ == Ord("=")
PLUS == Ord("+")
SPACE == Ord(" ")
PERCENT == Ord("%")
ZERO == Ord("0")
DASH == Str(<<"-">>)
COLON == Str(<<":">>)
DOT == Str(<<".">>)
BLANK == Str(<<" ">>)
SLASH == Str(<<"/">>)

Drop(s, n) == SubSeq(s, n + 1, Len(s))

\* what a decoder with errors="replace" puts in place of an invalid sequence
REPLACEMENT == 65533

\* bytes.decode(): the character at the head of a non-empty byte string.
\* len bytes are consumed; ok is FALSE when they are no valid UTF-8 sequence.
Utf8Step(b) ==
    LET b1 == b[1]
        need == IF b1 >= 194 /\ b1 <= 223 THEN 1
                ELSE IF b1 >= 224 /\ b1 <= 239 THEN 2
                ELSE IF b1 >= 240 /\ b1 <= 244 THEN 3
                ELSE 0
        lo2 == IF b1 = 224 THEN 160 ELSE IF b1 = 240 THEN 144 ELSE 128
        hi2 == IF b1 = 237 THEN 159 ELSE IF b1 = 244 THEN 143 ELSE 191
        Cont(j) == /\ Len(b) >= j
                   /\ b[j] >= (IF j = 2 THEN lo2 ELSE 128)
                   /\ b[j] <= (IF j = 2 THEN hi2 ELSE 191)
        good == IF ~Cont(2) THEN 0
                ELSE IF need = 1 \/ ~Cont(3) THEN 1
                ELSE IF need = 2 \/ ~Cont(4) THEN 2
                ELSE 3
    IN  IF b1 < 128 THEN [cp |-> b1, len |-> 1, ok |-> TRUE]
        ELSE IF need = 0 THEN [cp |-> REPLACEMENT, len |-> 1, ok |-> FALSE]
        ELSE IF good < need THEN [cp |-> REPLACEMENT, len |-> 1 + good, ok |-> FALSE]
        ELSE IF need = 1 THEN
            [cp |-> (b1 - 192) * 64 + (b[2] - 128), len |-> 2, ok |-> TRUE]
        ELSE IF need = 2 THEN
            [cp |-> (b1 - 224) * 4096 + (b[2] - 128) * 64 + (b[3] - 128),
             len |-> 3, ok |-> TRUE]
        ELSE
            [cp |-> (b1 - 240) * 262144 + (b[2] - 128) * 4096
                      + (b[3] - 128) * 64 + (b[4] - 128),
             len |-> 4, ok |-> TRUE]

\* bytes.decode() raises UnicodeDecodeError unless this holds
RECURSIVE Utf8Valid(_)
Utf8Valid(b) ==
    IF b = <<>> THEN TRUE
    ELSE LET s == Utf8Step(b) IN s.ok /\ Utf8Valid(Drop(b, s.len))

\* bytes.decode(errors="replace"); equal to bytes.decode() on valid input
RECURSIVE Utf8Decode(_)
Utf8Decode(b) ==
    IF b = <<>> THEN <<>>
    ELSE LET s == Utf8Step(b) IN <<s.cp>> \o Utf8Decode(Drop(b, s.len))

\* str.encode()
RECURSIVE Utf8Encode(_)
Utf8Encode(t) ==
    IF t = <<>> THEN <<>>
    ELSE LET c == t[1]
             head == IF c < 128 THEN <<c>>
                     ELSE IF c < 2048 THEN <<192 + (c \div 64), 128 + (c % 64)>>
                     ELSE IF c < 65536 THEN
                         <<224 + (c \div 4096), 128 + ((c \div 64) % 64), 128 + (c % 64)>>
                     ELSE <<240 + (c \div 262144), 128 + ((c \div 4096) % 64),
                            128 + ((c \div 64) % 64), 128 + (c % 64)>>
         IN  head \o Utf8Encode(Tail(t))

\* value of a hexadecimal digit, -1 for any other character
HexVal(c) ==
    IF c >= 48 /\ c <= 57 THEN c - 48
    ELSE IF c >= 65 /\ c <= 70 THEN c - 55
    ELSE IF c >= 97 /\ c <= 102 THEN c - 87
    ELSE 0 - 1

\* urllib.parse.unquote_to_bytes on a run of ASCII characters: %XX becomes the
\* byte XX, a % that two hexadecimal digits do not follow stays as it is
RECURSIVE PercentToBytes(_)
PercentToBytes(t) ==
    IF t = <<>> THEN <<>>
    ELSE IF /\ t[1] = PERCENT
            /\ Len(t) >= 3
            /\ HexVal(t[2]) >= 0
            /\ HexVal(t[3]) >= 0
         THEN <<16 * HexVal(t[2]) + HexVal(t[3])>> \o PercentToBytes(Drop(t, 3))
         ELSE <<t[1]>> \o PercentToBytes(Tail(t))

RECURSIVE AsciiRun(_)
AsciiRun(t) == IF t = <<>> \/ t[1] >= 128 THEN 0 ELSE 1 + AsciiRun(Tail(t))

\* urllib.parse.unquote: every maximal ASCII run is unquoted to bytes and
\* decoded with errors="replace"; other characters pass through
RECURSIVE unquote(_)
unquote(t) ==
    IF t = <<>> THEN <<>>
    ELSE IF t[1] >= 128 THEN <<t[1]>> \o unquote(Tail(t))
    ELSE LET n == AsciiRun(t)
         IN  Utf8Decode(PercentToBytes(SubSeq(t, 1, n))) \o unquote(Drop(t, n))

\* urllib.parse.unquote_plus: + becomes a space, then unquote
unquote_plus(t) ==
    unquote([i \in 1..Len(t) |-> IF t[i] = PLUS THEN SPACE ELSE t[i]])

\* str.split(sep) for a one-character separator: never an empty list
RECURSIVE Split(_, _)
Split(t, sep) ==
    IF \A i \in 1..Len(t) : t[i] # sep THEN <<t>>
    ELSE LET i == CHOOSE i \in 1..Len(t) :
                      t[i] = sep /\ \A j \in 1..(i - 1) : t[j] # sep
         IN  <<SubSeq(t, 1, i - 1)>> \o Split(Drop(t, i), sep)

\* zero-padded decimal digits, as strftime writes a field
RECURSIVE Pad(_, _)
Pad(n, width) ==
    IF width = 0 THEN <<>> ELSE Pad(n \div 10, width - 1) \o <<ZERO + (n % 10)>>

\* datetime.strftime("%Y-%m-%d %H:%M:%S.%f")
strftime(now) ==
    Pad(now.year, 4) \o DASH \o Pad(now.month, 2) \o DASH
      \o Pad(now.day, 2) \o BLANK \o Pad(now.hour, 2) \o COLON
      \o Pad(now.minute, 2) \o COLON \o Pad(now.second, 2) \o DOT
      \o Pad(now.microsecond, 6)

(***************************** Config *************************************)
BUFFER_SIZE == 1024

\* the key save_message_from_udp_data sets
DATE == Str(<<"d", "a", "t", "e">>)

\* the day and second the listener runs in; datetime.now() differs from one
\* reading to the next in its microsecond
Now(us) == [year |-> 2024, month |-> 5, day |-> 17, hour |-> 9, minute |-> 30,
            second |-> 0, microsecond |-> us]

(***************************** MongoDBClient ******************************)
\* [el.split("=") for el in parsed_data.split("&")]
SplitPairsSkipping(text) ==
    LET els == Split(text, AMP)
        all == [i \in 1..Len(els) |-> Split(els[i], EQ)]
    IN  SelectSeq(all, LAMBDA p : Len(p) = 2)

SplitPairs(text) ==
    LET els == Split(text, AMP)
    IN  [i \in 1..Len(els) |-> Split(els[i], EQ)]

\* `for key, value in ...` raises ValueError unless every list has two elements
Unpacks(pairs) == \A i \in 1..Len(pairs) : Len(pairs[i]) = 2

\* {key: value for key, value in ...}: the last value of a key stays
DictOf(pairs) ==
    [k \in {pairs[i][1] : i \in 1..Len(pairs)} |->
        LET last == CHOOSE i \in 1..Len(pairs) :
                        pairs[i][1] = k /\ \A j \in (i + 1)..Len(pairs) : pairs[j][1] # k
        IN  pairs[last][2]]

\* parsed_data[key] = value
SetDefault(doc, key, value) ==
    [k \in DOMAIN doc \cup {key} |-> IF k \in DOMAIN doc THEN doc[k] ELSE value]

SetItem(doc, key, value) ==
    [k \in DOMAIN doc \cup {key} |-> IF k = key THEN value ELSE doc[k]]

\* what insert_one can do: insert, raise errors.ConnectionFailure, raise
\* another error
StoreOutcomes == {"ok", "ConnectionFailure", "Exception"}

\* self.db.messages.insert_one(parsed_data): the collection afterwards
replace_one(msgs, doc) == IF msgs = <<>> THEN <<doc>> ELSE [msgs EXCEPT ![1] = doc]

insert_one(msgs, doc) == Append(msgs, doc)

\* the try block of save_message_from_udp_data: the collection afterwards and
\* the exception raised, "none" when the block ends normally
SaveAttempt(msgs, data, now, store) ==
    IF ~Utf8Valid(data) THEN [messages |-> msgs, exc |-> "ValueError"]
    ELSE LET pairs == SplitPairs(unquote_plus(Utf8Decode(data)))
         IN  IF ~Unpacks(pairs) THEN [messages |-> msgs, exc |-> "ValueError"]
             ELSE IF store # "ok" THEN [messages |-> msgs, exc |-> store]
             ELSE [messages |-> insert_one(msgs, SetItem(DictOf(pairs), DATE,
                                                         strftime(now))),
                   exc |-> "none"]

\* the except clauses of save_message_from_udp_data: what is logged and what
\* leaves the method
ExceptClausesNoCatchAll(exc) ==
    CASE exc = "none" -> [logged |-> "none", raised |-> "none"]
      [] exc = "ValueError" -> [logged |-> "Data parsing error", raised |-> "none"]
      [] exc = "ConnectionFailure" ->
            [logged |-> "Could not connect to MongoDB", raised |-> "none"]
      [] OTHER -> [logged |-> "none", raised |-> exc]

ExceptClauses(exc) ==
    CASE exc = "none" -> [logged |-> "none", raised |-> "none"]
      [] exc = "ValueError" -> [logged |-> "Data parsing error", raised |-> "none"]
      [] exc = "ConnectionFailure" ->
            [logged |-> "Could not connect to MongoDB", raised |-> "none"]
      [] OTHER -> [logged |-> "Failed to save data", raised |-> "none"]

\* the method: its try block, then its except clauses
AfterTry(r) ==
    [messages |-> r.messages, exc |-> r.exc, logged |-> ExceptClauses(r.exc).logged,
     raised |-> ExceptClauses(r.exc).raised]

save_message_from_udp_data(msgs, data, now, store) ==
    AfterTry(SaveAttempt(msgs, data, now, store))

(***************************** state **************************************)
VARIABLES
    args,           \* the command line: a subset of {"http", "socket"}
    main_pc,        \* "start", "running" or "usage": the __main__ block
    http_pc,        \* run_http_server: "off", "init", "serving", "caught", "exited"
    http_sock,      \* the listening socket: "none", "listening", "closed"
    http_exc,       \* what ended serve_forever: "none", "KeyboardInterrupt", "Exception"
    http_closes,    \* calls of server_close
    conns,          \* per connection: its state, request and what the handler did
    active,         \* connections whose request is being handled
    served,         \* connections in the order their handlers ended
    net,            \* datagrams sent to the listener's port and not yet received
    udp_pc,         \* run_socket_server: "off", "Starting", "Bound", "Listening",
                    \* "Saving", "Stopped", "Failed", "Exited"
    udp_sock,       \* the listener's socket: "none", "bound", "closed"
    udp_exc,        \* what ended the listener: "none", "KeyboardInterrupt",
                    \* "Exception", "OSError"
    client,         \* the MongoDBClient: "none", "open", "closed"
    client_closes,  \* calls of MongoDBClient.close
    data,           \* the datagram recvfrom returned
    clock,          \* microsecond of the next datetime.now()
    messages,       \* db.messages: the documents in insertion order
    log             \* one entry per call of save_message_from_udp_data

httpVars == <<http_pc, http_sock, http_exc, http_closes, conns, active, served>>
udpVars == <<udp_pc, udp_sock, udp_exc, client, client_closes, data, clock,
             messages, log>>
vars == <<args, main_pc, http_pc, http_sock, http_exc, http_closes, conns, active,
          served, net, udp_pc, udp_sock, udp_exc, client, client_closes, data,
          clock, messages, log>>

Conns == 1..MaxConns

RemoveAt(s, i) == SubSeq(s, 1, i - 1) \o SubSeq(s, i + 1, Len(s))

Min(a, b) == IF a < b THEN a ELSE b

(***************************** run_socket_server **************************)
\* sock.recvfrom(Config.BUFFER_SIZE): a longer datagram is cut
Truncate(d) == SubSeq(d, 1, Min(Len(d), BUFFER_SIZE))

\* the except clauses of the receive loop: where an exception leaving the loop
\* body takes the listener
LoopExcept(exc) == IF exc = "KeyboardInterrupt" THEN "Stopped" ELSE "Failed"

\* the finally clause and the end of the with block: the calls of
\* client.close() and whether the socket is closed, by the way the loop ended
CleanupOnInterruptOnly(how) ==
    [closes |-> IF how = "Stopped" THEN 1 ELSE 0, sock |-> "closed"]

Cleanup(how) == [closes |-> 1, sock |-> "closed"]

\* sock.bind(...) inside `with socket.socket(...) as sock`: a failing bind is
\* caught nowhere, so it leaves the with block, which closes the socket, and
\* ends run_socket_server
BindOutcomeRetrying(ok) ==
    IF ok THEN [pc |-> "Bound", sock |-> "bound", exc |-> "none"]
    ELSE [pc |-> "Starting", sock |-> "none", exc |-> "OSError"]

BindOutcome(ok) ==
    IF ok THEN [pc |-> "Bound", sock |-> "bound", exc |-> "none"]
    ELSE [pc |-> "Exited", sock |-> "closed", exc |-> "OSError"]

UdpBind ==
    /\ udp_pc = "Starting"
    /\ \E ok \in BOOLEAN :
          \E r \in {BindOutcome(ok)} :
              /\ udp_pc' = r.pc
              /\ udp_sock' = r.sock
              /\ udp_exc' = IF r.exc = "none" THEN udp_exc ELSE r.exc
    /\ UNCHANGED <<args, main_pc, httpVars, net, client, client_closes, data, clock,
                   messages, log>>

\* client = MongoDBClient(Config.DB_URI); the loop is entered
UdpOpenClient ==
    /\ udp_pc = "Bound"
    /\ udp_pc' = "Listening"
    /\ client' = "open"
    /\ UNCHANGED <<args, main_pc, httpVars, net, udp_sock, udp_exc, client_closes,
                   data, clock, messages, log>>

\* the loop body is recvfrom and then the save, one after the other in the one
\* thread of the listener: recvfrom is called only when no save is under way
CanReceiveWhileSaving(pc) == pc \in {"Listening", "Saving"}

CanReceive(pc) == pc = "Listening"

\* data, _ = sock.recvfrom(Config.BUFFER_SIZE): datagrams arrive in any order
UdpRecv ==
    /\ CanReceive(udp_pc)
    /\ Len(log) < MaxRecv
    /\ \E i \in 1..Len(net) :
          /\ data' = Truncate(net[i])
          /\ net' = RemoveAt(net, i)
    /\ udp_pc' = "Saving"
    /\ UNCHANGED <<args, main_pc, httpVars, udp_sock, udp_exc, client, client_closes,
                   clock, messages, log>>

\* client.save_message_from_udp_data(data)
UdpSave ==
    /\ udp_pc = "Saving"
    /\ \E store \in StoreOutcomes :
          \E r \in {save_message_from_udp_data(messages, data, Now(clock), store)} :
              /\ messages' = r.messages
              /\ log' = Append(log, [data |-> data, us |-> clock, exc |-> r.exc,
                                     logged |-> r.logged,
                                     at |-> IF r.exc = "none" THEN Len(r.messages) ELSE 0])
              /\ udp_pc' = IF r.raised = "none" THEN "Listening" ELSE LoopExcept(r.raised)
              /\ udp_exc' = IF r.raised = "none" THEN udp_exc ELSE r.raised
    /\ clock' = clock + 1
    /\ data' = <<>>
    /\ UNCHANGED <<args, main_pc, httpVars, net, udp_sock, client, client_closes>>

\* KeyboardInterrupt in the loop, in recvfrom or in the middle of a save
UdpInterrupt ==
    /\ udp_pc \in {"Listening", "Saving"}
    /\ udp_pc' = LoopExcept("KeyboardInterrupt")
    /\ udp_exc' = "KeyboardInterrupt"
    /\ data' = <<>>
    /\ UNCHANGED <<args, main_pc, httpVars, net, udp_sock, client, client_closes,
                   clock, messages, log>>

\* recvfrom raises
UdpRecvError ==
    /\ udp_pc = "Listening"
    /\ udp_pc' = LoopExcept("Exception")
    /\ udp_exc' = "Exception"
    /\ UNCHANGED <<args, main_pc, httpVars, net, udp_sock, client, client_closes,
                   data, clock, messages, log>>

\* finally: client.close(); then the with block closes the socket. The
\* datagrams still queued on the socket are gone with it.
UdpFinally ==
    /\ udp_pc \in {"Stopped", "Failed"}
    /\ \E c \in {Cleanup(udp_pc)} :
           /\ client_closes' = client_closes + c.closes
           /\ client' = IF c.closes > 0 THEN "closed" ELSE client
           /\ udp_sock' = c.sock
           /\ net' = IF c.sock = "closed" THEN <<>> ELSE net
    /\ udp_pc' = "Exited"
    /\ UNCHANGED <<args, main_pc, httpVars, udp_exc, data, clock, messages, log>>

\* KeyboardInterrupt after bind and before the client is made: only the with
\* block is left
UdpInterruptBound ==
    /\ udp_pc = "Bound"
    /\ udp_pc' = "Exited"
    /\ udp_exc' = "KeyboardInterrupt"
    /\ udp_sock' = "closed"
    /\ net' = <<>>
    /\ UNCHANGED <<args, main_pc, httpVars, client, client_closes, data, clock,
                   messages, log>>

(***************************** the network ********************************)
\* datagrams other programs send the listener in the runs where it is alone
Datagrams ==
    { Str(<<"k", "=", "v">>), Str(<<"n", "&", "k", "=", "v">>),
      Str(<<"d", "a", "t", "e", "=", "v">>), <<255>>, <<>> }

\* a datagram for the listener's port is queued on its socket when there is
\* one and room in it, and is lost otherwise
Deliver(queue, d) ==
    IF udp_sock = "bound" /\ Len(queue) < MaxNet THEN Append(queue, d) ELSE queue

UdpSend(d) ==
    /\ udp_sock = "bound"
    /\ Len(net) < MaxNet
    /\ net' = Deliver(net, d)
    /\ UNCHANGED <<args, main_pc, httpVars, udpVars>>

NetLose ==
    /\ \E i \in 1..Len(net) : net' = RemoveAt(net, i)
    /\ UNCHANGED <<args, main_pc, httpVars, udpVars>>

(***************************** CatFramework *******************************)
IsDigit(c) == c >= 48 /\ c <= 57

\* int(text) raises ValueError unless this holds (signs, blanks and
\* underscores, which int also reads, are in no header of the model)
IsDecimal(t) == t # <<>> /\ \A i \in 1..Len(t) : IsDigit(t[i])

RECURSIVE IntOf(_)
IntOf(t) == IF t = <<>> THEN 0 ELSE 10 * IntOf(SubSeq(t, 1, Len(t) - 1)) + (t[Len(t)] - 48)

\* self.path as it is, query string included
UrlPathRaw(target) == target

\* urlparse(self.path).path: the target up to its query or fragment
UrlPath(target) == Split(Split(target, Ord("#"))[1], Ord("?"))[1]

\* what lies under Config.BASE_DIR, by the path relative to it
BaseDir ==
    (Str(<<"a">>) :> [kind |-> "file", bytes |-> Str(<<"b">>)])
      @@ (Str(<<"d">>) :> [kind |-> "dir", bytes |-> <<>>])
      @@ (<<>> :> [kind |-> "dir", bytes |-> <<>>])

\* the files of Config.TEMPLATES_DIR; their bytes are written as their names
Templates == [page \in {"index.html", "error.html"} |-> <<page>>]

\* mimetypes.guess_type(filename)[0] or "text/plain": no name of BaseDir has an
\* extension, so that nothing is guessed
GuessType(name) == "text/plain"

Ev(op, arg) == [op |-> op, arg |-> arg]

Response(status, header, value) ==
    << Ev("send_response", <<status>>), Ev("send_header", <<header, value>>),
       Ev("end_headers", <<>>) >>

\* send_html(filename, status)
send_html(filename, status) ==
    [events |-> Response(status, "Content-type", "text/html")
                  \o <<Ev("write", Templates[filename])>>,
     raised |-> "none", sent |-> <<>>]

\* send_static(filename): open() raises on a directory, after the headers
send_static(name) ==
    LET head == Response(200, "Content-type", GuessType(name))
    IN  IF BaseDir[name].kind = "file"
        THEN [events |-> head \o <<Ev("write", BaseDir[name].bytes)>>,
              raised |-> "none", sent |-> <<>>]
        ELSE [events |-> head, raised |-> "OSError", sent |-> <<>>]

do_GET(req) ==
    LET router == UrlPath(req.target)
    IN  IF router = SLASH THEN send_html("index.html", 200)
        ELSE IF Drop(router, 1) \in DOMAIN BaseDir THEN send_static(Drop(router, 1))
        ELSE send_html("error.html", 404)

\* int(self.headers.get("Content-Length", 0)) raises ValueError unless this holds
SizeReadable(req) == ~req.has_cl \/ IsDecimal(req.cl)

Size(req) == IF req.has_cl THEN IntOf(req.cl) ELSE 0

\* self.rfile.read(size)
BodyRead(req) == SubSeq(req.body, 1, Min(Size(req), Len(req.body)))

\* the relay of do_POST and its answer, in the order of the calls
RelayEvents(payload) ==
    << Ev("socket", <<>>), Ev("sendto", payload), Ev("close", <<>>) >>
      \o Response(302, "Location", "/")

do_POST_AnswerFirst(req, sendOk) ==
    IF ~SizeReadable(req) \/ ~Utf8Valid(BodyRead(req))
    THEN [events |-> <<>>, raised |-> "ValueError", sent |-> <<>>]
    ELSE LET payload == Utf8Encode(Utf8Decode(BodyRead(req)))
         IN  [events |-> Response(302, "Location", "/")
                           \o << Ev("socket", <<>>), Ev("sendto", payload),
                                 Ev("close", <<>>) >>,
              raised |-> "none", sent |-> <<payload>>]

\* do_POST sending nothing when the body is empty
do_POST_SkipEmpty(req, sendOk) ==
    IF ~SizeReadable(req) \/ ~Utf8Valid(BodyRead(req))
    THEN [events |-> <<>>, raised |-> "ValueError", sent |-> <<>>]
    ELSE LET payload == Utf8Encode(Utf8Decode(BodyRead(req)))
         IN  IF payload = <<>>
             THEN [events |-> Response(302, "Location", "/"), raised |-> "none",
                   sent |-> <<>>]
             ELSE IF sendOk
             THEN [events |-> RelayEvents(payload), raised |-> "none",
                   sent |-> <<payload>>]
             ELSE [events |-> <<Ev("socket", <<>>)>>, raised |-> "OSError",
                   sent |-> <<>>]

\* do_POST sending its datagram a second time
do_POST_Resend(req, sendOk) ==
    IF ~SizeReadable(req) \/ ~Utf8Valid(BodyRead(req))
    THEN [events |-> <<>>, raised |-> "ValueError", sent |-> <<>>]
    ELSE LET payload == Utf8Encode(Utf8Decode(BodyRead(req)))
         IN  IF sendOk
             THEN [events |-> << Ev("socket", <<>>), Ev("sendto", payload) >>
                                \o RelayEvents(payload),
                   raised |-> "none", sent |-> <<payload, payload>>]
             ELSE [events |-> <<Ev("socket", <<>>)>>, raised |-> "OSError",
                   sent |-> <<>>]

\* do_POST; sendOk is whether sendto succeeds
do_POST(req, sendOk) ==
    IF ~SizeReadable(req) \/ ~Utf8Valid(BodyRead(req))
    THEN [events |-> <<>>, raised |-> "ValueError", sent |-> <<>>]
    ELSE LET payload == Utf8Encode(Utf8Decode(BodyRead(req)))
         IN  IF sendOk
             THEN [events |-> RelayEvents(payload), raised |-> "none",
                   sent |-> <<payload>>]
             ELSE [events |-> <<Ev("socket", <<>>)>>, raised |-> "OSError",
                   sent |-> <<>>]

\* BaseHTTPRequestHandler.handle_one_request: the method picks do_GET or do_POST
Handle(req, sendOk) == IF req.method = "POST" THEN do_POST(req, sendOk) ELSE do_GET(req)

\* rfile.read(size) waits for the bytes of the body
Blocked(conn) ==
    /\ conn.req.method = "POST"
    /\ SizeReadable(conn.req)
    /\ Size(conn.req) > 0
    /\ ~conn.arrived

(***************************** run_http_server ****************************)
Get(target) ==
    [method |-> "GET", target |-> target, has_cl |-> FALSE, cl |-> <<>>, body |-> <<>>]

Post(target, has_cl, cl, body) ==
    [method |-> "POST", target |-> target, has_cl |-> has_cl, cl |-> cl, body |-> body]

\* the requests clients send in the runs of the HTTP server alone
Requests ==
    { Get(SLASH), Get(Str(<<"/", "a">>)), Get(Str(<<"/", "d">>)),
      Get(Str(<<"/", "x">>)), Get(Str(<<"/", "?", "/", "a">>)),
      Post(SLASH, TRUE, Str(<<"3">>), Str(<<"k", "=", "v">>)),
      Post(Str(<<"/", "x">>), FALSE, <<>>, Str(<<"k", "=", "v">>)),
      Post(SLASH, TRUE, Str(<<"x">>), Str(<<"k", "=", "v">>)),
      Post(SLASH, TRUE, Str(<<"1">>), Str(<<"k", "=", "v">>)),
      Post(SLASH, TRUE, Str(<<"1">>), <<255>>),
      Post(SLASH, TRUE, Str(<<"0">>), <<>>),
      Post(SLASH, TRUE, Str(<<"5">>), Str(<<"n", "&", "k", "=", "v">>)) }

NoReq == Get(<<>>)

Conn(state, req, arrived, events, raised) ==
    [state |-> state, req |-> req, arrived |-> arrived, events |-> events,
     raised |-> raised]

\* HTTPServer, not ThreadingHTTPServer: serve_forever accepts a connection
\* only when no request is being handled
CanAcceptThreading(handling) == TRUE

CanAccept(handling) == handling = {}

\* socketserver catches an Exception of the handler (handle_error) and goes on
\* serving: the state of run_http_server after a handler that raised exc
AfterHandlerPropagating(exc) == IF exc = "none" THEN "serving" ELSE "caught"

AfterHandler(exc) == "serving"

\* finally: http_server.server_close(): the number of calls, by what ended
\* serve_forever
ServerClosesOnInterruptOnly(exc) == IF exc = "KeyboardInterrupt" THEN 1 ELSE 0

ServerCloses(exc) == 1

\* HTTPServer((HTTP_HOST, HTTP_PORT), CatFramework) binds and listens; when it
\* raises, run_http_server is left before its try block
HttpStart ==
    /\ http_pc = "init"
    /\ \E ok \in BOOLEAN :
          IF ok THEN /\ http_pc' = "serving"
                     /\ http_sock' = "listening"
                     /\ http_exc' = http_exc
                ELSE /\ http_pc' = "exited"
                     /\ http_sock' = http_sock
                     /\ http_exc' = "OSError"
    /\ UNCHANGED <<args, main_pc, http_closes, conns, active, served, net, udpVars>>

\* a client connects and sends its request, with or without the body
ClientConnect(c, r) ==
    /\ http_sock = "listening"
    /\ conns[c].state = "idle"
    /\ \A b \in 1..(c - 1) : conns[b].state # "idle"
    /\ \E arrived \in BOOLEAN :
          /\ (r.body = <<>> => arrived)
          /\ conns' = [conns EXCEPT ![c] = Conn("queued", r, arrived, <<>>, "none")]
    /\ UNCHANGED <<args, main_pc, http_pc, http_sock, http_exc, http_closes, active,
                   served, net, udpVars>>

\* the rest of the request arrives
ClientSendBody(c) ==
    /\ conns[c].state \in {"queued", "handling"}
    /\ ~conns[c].arrived
    /\ conns' = [conns EXCEPT ![c].arrived = TRUE]
    /\ UNCHANGED <<args, main_pc, http_pc, http_sock, http_exc, http_closes, active,
                   served, net, udpVars>>

\* serve_forever: accept and start handling a connection
HttpAccept(c) ==
    /\ http_pc = "serving"
    /\ conns[c].state = "queued"
    /\ CanAccept(active)
    /\ conns' = [conns EXCEPT ![c].state = "handling"]
    /\ active' = active \cup {c}
    /\ UNCHANGED <<args, main_pc, http_pc, http_sock, http_exc, http_closes, served,
                   net, udpVars>>

RECURSIVE DeliverAll(_, _)
DeliverAll(queue, ds) ==
    IF ds = <<>> THEN queue ELSE DeliverAll(Deliver(queue, ds[1]), Tail(ds))

\* client_socket.sendto(data.encode(), address) on a socket that was never
\* connected: whether it succeeds does not depend on the listener's socket,
\* since a port nobody listens on is no error for the sender
SendOutcomesConnected(listener) == IF listener = "bound" THEN BOOLEAN ELSE {FALSE}

SendOutcomes(listener) == BOOLEAN

\* the handler runs to its end: do_GET or do_POST
HttpHandle(c) ==
    /\ http_pc = "serving"
    /\ c \in active
    /\ ~Blocked(conns[c])
    /\ \E sendOk \in IF conns[c].req.method = "GET" THEN {TRUE}
                       ELSE SendOutcomes(udp_sock) :
          \E r \in {Handle(conns[c].req, sendOk)} :
              /\ conns' = [conns EXCEPT ![c] =
                              Conn("done", conns[c].req, conns[c].arrived, r.events,
                                   r.raised)]
              /\ net' = DeliverAll(net, r.sent)
              /\ http_pc' = AfterHandler(r.raised)
              /\ http_exc' = IF AfterHandler(r.raised) = "serving" THEN http_exc
                             ELSE "Exception"
    /\ active' = active \ {c}
    /\ served' = Append(served, c)
    /\ UNCHANGED <<args, main_pc, http_sock, http_closes, udpVars>>

\* the connections an ending server leaves unanswered
Abandon(cs) ==
    [c \in Conns |-> IF cs[c].state \in {"queued", "handling"}
                     THEN [cs[c] EXCEPT !.state = "reset"] ELSE cs[c]]

\* KeyboardInterrupt in serve_forever, a handler under way included
HttpInterrupt ==
    /\ http_pc = "serving"
    /\ http_pc' = "caught"
    /\ http_exc' = "KeyboardInterrupt"
    /\ conns' = [c \in Conns |-> IF c \in active
                                 THEN [conns[c] EXCEPT !.state = "reset"] ELSE conns[c]]
    /\ active' = {}
    /\ UNCHANGED <<args, main_pc, http_sock, http_closes, served, net, udpVars>>

\* serve_forever raises: select or accept fails
HttpServeError ==
    /\ http_pc = "serving"
    /\ active = {}
    /\ http_pc' = "caught"
    /\ http_exc' = "Exception"
    /\ UNCHANGED <<args, main_pc, http_sock, http_closes, conns, active, served, net,
                   udpVars>>

\* finally: http_server.server_close()
HttpFinally ==
    /\ http_pc = "caught"
    /\ http_closes' = http_closes + ServerCloses(http_exc)
    /\ http_sock' = IF ServerCloses(http_exc) > 0 THEN "closed" ELSE http_sock
    /\ conns' = IF ServerCloses(http_exc) > 0 THEN Abandon(conns) ELSE conns
    /\ active' = {}
    /\ http_pc' = "exited"
    /\ UNCHANGED <<args, main_pc, http_exc, served, net, udpVars>>

(***************************** __main__ ***********************************)
\* the servers the command line starts; both flags together start none
LaunchEveryFlag(flags) == IF flags = {} THEN {"http", "socket"} ELSE flags

Launch(flags) ==
    IF flags = {"http", "socket"} THEN {}
    ELSE IF flags = {} THEN {"http", "socket"}
    ELSE flags

Main ==
    /\ main_pc = "start"
    /\ main_pc' = IF Launch(args) = {} THEN "usage" ELSE "running"
    /\ http_pc' = IF "http" \in Launch(args) THEN "init" ELSE http_pc
    /\ udp_pc' = IF "socket" \in Launch(args) THEN "Starting" ELSE udp_pc
    /\ UNCHANGED <<args, http_sock, http_exc, http_closes, conns, active, served,
                   net, udp_sock, udp_exc, client, client_closes, data, clock,
                   messages, log>>

(***************************** specifications *****************************)
InitWith(flags) ==
    /\ args \in flags
    /\ main_pc = "start"
    /\ http_pc = "off"
    /\ http_sock = "none"
    /\ http_exc = "none"
    /\ http_closes = 0
    /\ conns = [c \in Conns |-> Conn("idle", NoReq, FALSE, <<>>, "none")]
    /\ active = {}
    /\ served = <<>>
    /\ net = <<>>
    /\ udp_pc = "off"
    /\ udp_sock = "none"
    /\ udp_exc = "none"
    /\ client = "none"
    /\ client_closes = 0
    /\ data = <<>>
    /\ clock = 0
    /\ messages = <<>>
    /\ log = <<>>

HttpNext ==
    \/ HttpStart
    \/ \E c \in Conns : ClientSendBody(c)
    \/ \E c \in Conns : HttpAccept(c)
    \/ \E c \in Conns : HttpHandle(c)
    \/ HttpInterrupt
    \/ HttpServeError
    \/ HttpFinally

UdpNext ==
    \/ UdpBind
    \/ UdpOpenClient
    \/ UdpInterruptBound
    \/ UdpRecv
    \/ UdpSave
    \/ UdpInterrupt
    \/ UdpRecvError
    \/ UdpFinally
    \/ NetLose

\* the requests of the runs with both servers
RelayedRequests ==
    { Get(SLASH),
      Post(SLASH, TRUE, Str(<<"3">>), Str(<<"k", "=", "v">>)),
      Post(SLASH, TRUE, Str(<<"0">>), <<>>),
      Post(Str(<<"/", "x">>), FALSE, <<>>, <<>>) }

\* the program as started with any command line
Init == InitWith(SUBSET {"http", "socket"})

Next ==
    \/ Main
    \/ \E c \in Conns, r \in RelayedRequests : ClientConnect(c, r)
    \/ HttpNext
    \/ UdpNext

Spec == Init /\ [][Next]_vars

\* python main.py --http
InitHttp == InitWith({{"http"}})

NextHttp ==
    \/ Main
    \/ \E c \in Conns, r \in Requests : ClientConnect(c, r)
    \/ HttpNext

SpecHttp == InitHttp /\ [][NextHttp]_vars

\* python main.py --socket, with datagrams from anywhere
InitUdp == InitWith({{"socket"}})

NextUdp ==
    \/ Main
    \/ \E d \in Datagrams : UdpSend(d)
    \/ UdpNext

SpecUdp == InitUdp /\ [][NextUdp]_vars

(***************************** datagrams of SpecDecode ********************)
HexDigit(n) == IF n < 10 THEN 48 + n ELSE 55 + n

\* the characters quote_plus leaves as they are: letters, digits and _.-~
IsSafe(b) ==
    \/ IsDigit(b)
    \/ (b >= 65 /\ b <= 90)
    \/ (b >= 97 /\ b <= 122)
    \/ b \in {Ord("_"), Ord("."), Ord("-"), Ord("~")}

\* urllib.parse.quote_plus: the form encoding of one key or value
RECURSIVE QuoteBytes(_)
QuoteBytes(b) ==
    IF b = <<>> THEN <<>>
    ELSE (IF IsSafe(b[1]) THEN <<b[1]>>
          ELSE IF b[1] = SPACE THEN <<PLUS>>
          ELSE <<PERCENT, HexDigit(b[1] \div 16), HexDigit(b[1] % 16)>>)
         \o QuoteBytes(Tail(b))

quote_plus(t) == QuoteBytes(Utf8Encode(t))

\* application/x-www-form-urlencoded: key=value pairs joined by &
RECURSIVE UrlEncode(_)
UrlEncode(pairs) ==
    IF pairs = <<>> THEN <<>>
    ELSE quote_plus(pairs[1][1]) \o <<EQ>> \o quote_plus(pairs[1][2])
           \o (IF Len(pairs) = 1 THEN <<>> ELSE <<AMP>> \o UrlEncode(Tail(pairs)))

\* keys and values of the forms: a letter, the characters the encoding
\* escapes, and the empty text
FormTexts ==
    { Str(<<"k">>), Str(<<"j">>), Str(<<"&">>), Str(<<"=">>), Str(<<"+">>),
      Str(<<"%">>), BLANK, <<>> }

FormKeys == { Str(<<"k">>), Str(<<"j">>), Str(<<"&">>), Str(<<"=">>) }

\* forms of two fields with distinct keys, none of them date
Forms ==
    { f \in { <<<<k1, v1>>, <<k2, v2>>>> :
                k1 \in FormKeys, v1 \in FormTexts, k2 \in FormKeys, v2 \in FormTexts } :
        f[1][1] # f[2][1] }

FormPayloads == { [form |-> f, data |-> UrlEncode(f)] : f \in Forms }

\* the pieces raw datagrams are made of: a whole pair, a key, the key date,
\* the separators, the escapes of the separators, a lone %, a byte that is no
\* text
Pieces ==
    { Str(<<"k", "=", "v">>), Str(<<"k">>), DATE, Str(<<"=">>), Str(<<"&">>),
      Str(<<"+">>), Str(<<"%", "2", "6">>), Str(<<"%", "3", "D">>), Str(<<"%">>),
      <<255>> }

RECURSIVE PieceSeqs(_)
PieceSeqs(n) ==
    IF n = 0 THEN {<<>>}
    ELSE LET shorter == PieceSeqs(n - 1)
         IN  shorter \cup { s \o p : s \in shorter, p \in Pieces }

RawPayloads == PieceSeqs(MaxPieces)

WellFormed == Str(<<"j", "=", "v">>)

\* python main.py --socket: the listener in its loop, with one datagram of any
\* content and a well-formed one queued on its socket
InitDecode ==
    /\ args = {"socket"}
    /\ main_pc = "running"
    /\ http_pc = "off"
    /\ http_sock = "none"
    /\ http_exc = "none"
    /\ http_closes = 0
    /\ conns = [c \in Conns |-> Conn("idle", NoReq, FALSE, <<>>, "none")]
    /\ active = {}
    /\ served = <<>>
    /\ net \in { <<p, WellFormed>> : p \in RawPayloads \cup { f.data : f \in FormPayloads } }
    /\ udp_pc = "Listening"
    /\ udp_sock = "bound"
    /\ udp_exc = "none"
    /\ client = "open"
    /\ client_closes = 0
    /\ data = <<>>
    /\ clock = 0
    /\ messages = <<>>
    /\ log = <<>>

NextDecode == UdpRecv \/ UdpSave

SpecDecode == InitDecode /\ [][NextDecode]_vars

(***************************** claims *************************************)
StoreFailures == {"ConnectionFailure", "Exception"}

\* the text save_message_from_udp_data splits, for a datagram that is text
Decoded(d) == unquote_plus(Utf8Decode(d))

Has(t, ch) == \E i \in 1..Len(t) : t[i] = ch

\* the URL-decoded payload has an &-separated pair with no =
HasBarePair(d) ==
    /\ Utf8Valid(d)
    /\ LET els == Split(Decoded(d), AMP)
       IN  \E i \in 1..Len(els) : ~Has(els[i], EQ)

\* the URL-decoded payload has an &-separated pair that is key=value
HasGoodPair(d) ==
    /\ Utf8Valid(d)
    /\ LET els == Split(Decoded(d), AMP)
       IN  \E i \in 1..Len(els) : Len(Split(els[i], EQ)) = 2

Last(s) == s[Len(s)]

\* C1: saving a datagram whose URL-decoded payload has a pair with no = leaves
\* the messages collection as it was and the listener in its receive loop, and
\* a well-formed datagram saved at any time, before or after it, is inserted
\* with its field (unless the store fails).
C1_MalformedRejected ==
    [][ udp_pc = "Saving" =>
          /\ HasBarePair(data) => (messages' = messages /\ udp_pc' = "Listening")
          /\ (data = WellFormed /\ Last(log').exc \notin StoreFailures) =>
                /\ udp_pc' = "Listening"
                /\ Len(messages') = Len(messages) + 1
                /\ Last(messages')[Str(<<"j">>)] = Str(<<"v">>) ]_vars

\* a datagram with a bare pair next to a well-formed pair was rejected, and the
\* well-formed datagram received after it was inserted
C1_Witness ==
    /\ Len(log) = 2
    /\ HasBarePair(log[1].data)
    /\ HasGoodPair(log[1].data)
    /\ log[1].at = 0
    /\ log[2].data = WellFormed
    /\ log[2].at = 1
    /\ Len(messages) = 1

\* the document a form stores: its fields and the date
FormDoc(form, us) ==
    [k \in {form[1][1], form[2][1], DATE} |->
        IF k = DATE THEN strftime(Now(us))
        ELSE IF k = form[1][1] THEN form[1][2] ELSE form[2][2]]

\* C2: for every form of two fields (keys distinct, none of them date; keys
\* and values any text, & = + % included), the datagram that is its
\* URL-encoding is stored as exactly one document with exactly the two fields
\* and the date (unless the store fails).
C2_RoundTrip ==
    \A i \in 1..Len(log) : \A f \in FormPayloads :
        (log[i].data = f.data /\ log[i].exc \notin StoreFailures) =>
            /\ log[i].at > 0
            /\ messages[log[i].at] = FormDoc(f.form, log[i].us)

\* an element split at its first = only
FirstEq(el) ==
    LET i == CHOOSE i \in 1..Len(el) : el[i] = EQ /\ \A j \in 1..(i - 1) : el[j] # EQ
    IN  <<SubSeq(el, 1, i - 1), Drop(el, i)>>

EveryPairHasEq(d) ==
    /\ Utf8Valid(d)
    /\ LET els == Split(Decoded(d), AMP)
       IN  \A i \in 1..Len(els) : Has(els[i], EQ)

FirstEqDoc(d, us) ==
    LET els == Split(Decoded(d), AMP)
    IN  SetItem(DictOf([i \in 1..Len(els) |-> FirstEq(els[i])]), DATE, strftime(Now(us)))

\* C3: every pair is split at its first = only: a datagram in which every
\* pair has an = is inserted with the text after the first = as the value, and
\* decoding fails only when a pair has no = or the bytes are no text.
C3_FirstEquals ==
    \A i \in 1..Len(log) :
        /\ (EveryPairHasEq(log[i].data) /\ log[i].exc \notin StoreFailures) =>
              /\ log[i].at > 0
              /\ messages[log[i].at] = FirstEqDoc(log[i].data, log[i].us)
        /\ log[i].exc = "ValueError" =>
              (~Utf8Valid(log[i].data) \/ HasBarePair(log[i].data))

\* the log entry of the save that inserted document n
EntryOf(n) == log[CHOOSE i \in 1..Len(log) : log[i].at = n]

\* the values the sender of datagram d gave the key date
ClientDates(d) ==
    LET pairs == SplitPairs(Decoded(d))
    IN  { pairs[i][2] : i \in {j \in 1..Len(pairs) : pairs[j][1] = DATE} }

\* C4: every document of the collection has a date field, which is the
\* timestamp taken when its datagram was decoded and never a value the sender
\* gave the key date.
C4_DateStamped ==
    \A n \in 1..Len(messages) :
        /\ \E i \in 1..Len(log) : log[i].at = n
        /\ DATE \in DOMAIN messages[n]
        /\ messages[n][DATE] = strftime(Now(EntryOf(n).us))
        /\ messages[n][DATE] \notin ClientDates(EntryOf(n).data)

\* a document is stored whose datagram carried a date of its own
C4_Witness ==
    \E n \in 1..Len(messages) :
        /\ \E i \in 1..Len(log) : log[i].at = n
        /\ ClientDates(EntryOf(n).data) # {}
        /\ messages[n][DATE] = strftime(Now(EntryOf(n).us))

\* the positions of the calls of op among the events of a handler
Calls(events, op) == { i \in 1..Len(events) : events[i].op = op }

\* the handler of connection c has ended and its request was a POST
PostDone(c) == conns[c].state = "done" /\ conns[c].req.method = "POST"

\* one datagram with these bytes was sent, and after it the answer 302 with
\* Location: /
RelayedThenRedirected(events, bytes) ==
    /\ Cardinality(Calls(events, "sendto")) = 1
    /\ \A i \in Calls(events, "sendto") :
          /\ events[i].arg = bytes
          /\ \A j \in Calls(events, "send_response") : i < j
    /\ Cardinality(Calls(events, "send_response")) = 1
    /\ \A j \in Calls(events, "send_response") : events[j].arg = <<302>>
    /\ \E j \in Calls(events, "send_header") : events[j].arg = <<"Location", "/">>
    /\ Calls(events, "end_headers") # {}

EnteredLoop == client # "none"

\* C6: when the listener has left its receive loop, by an interrupt or by an
\* error of the loop, and run_socket_server has ended, MongoDBClient.close was
\* called exactly once and the socket is closed; close is never called twice,
\* and no run ends with the handle or the socket open.
C6_ReleasedOnExit ==
    /\ client_closes <= 1
    /\ (udp_pc = "Exited" /\ EnteredLoop) =>
          /\ udp_exc \in {"KeyboardInterrupt", "Exception"}
          /\ client_closes = 1
          /\ client = "closed"
    /\ udp_pc = "Exited" => (client # "open" /\ udp_sock = "closed")
    /\ udp_pc \in {"Stopped", "Failed"} => (client = "open" /\ client_closes = 0)

\* the loop ended by an error after a datagram was saved, and everything was
\* released
C6_Witness ==
    /\ udp_pc = "Exited"
    /\ udp_exc = "Exception"
    /\ log # <<>>
    /\ client_closes = 1
    /\ udp_sock = "closed"

\* C7: a save in which the store fails (a connection failure or any other
\* error of the insert) ends inside save_message_from_udp_data: the listener
\* is back in its receive loop, neither Failed nor Stopped, nothing was
\* inserted, and the datagram is neither kept nor queued again.
C7_StoreFailureSwallowed ==
    [][ (Len(log') = Len(log) + 1 /\ Last(log').exc \in StoreFailures) =>
          /\ udp_pc' = "Listening"
          /\ udp_exc' = "none"
          /\ Last(log').logged # "none"
          /\ messages' = messages
          /\ net' = net
          /\ data' = <<>> ]_vars

\* the store failed for one datagram and the next one was inserted
C7_Witness ==
    /\ Len(log) = 2
    /\ log[1].exc \in StoreFailures
    /\ log[2].exc = "none"
    /\ log[2].at = 1
    /\ Len(messages) = 1

ServeStep == \E c \in Conns : HttpAccept(c) \/ HttpHandle(c)

\* C8: server_close is called at most once; when serve_forever was ended by
\* an interrupt or by an exception and run_http_server has ended, it was
\* called exactly once and the listening socket is closed; and once it was
\* called the server accepts and handles nothing.
C8_ClosedOnce ==
    /\ http_closes <= 1
    /\ (http_pc = "exited" /\ http_exc \in {"KeyboardInterrupt", "Exception"}) =>
          (http_closes = 1 /\ http_sock = "closed")
    /\ http_closes = 1 =>
          /\ http_pc = "exited"
          /\ http_sock = "closed"
          /\ active = {}
          /\ ~ENABLED ServeStep

\* serve_forever raised after a request was served, and the socket was closed
C8_Witness ==
    /\ http_pc = "exited"
    /\ http_exc = "Exception"
    /\ served # <<>>
    /\ http_closes = 1
    /\ http_sock = "closed"

\* the handler of connection c ends in this step with an exception
HandlerRaises(c) ==
    /\ conns[c].state = "handling"
    /\ conns'[c].state = "done"
    /\ conns'[c].raised # "none"

\* C9: an exception of a request handler leaves the server serving with its
\* listening socket open, and a server that is serving and handles no request
\* can accept every connection that waits.
C9_HandlerErrorContained ==
    /\ [][ \A c \in Conns : HandlerRaises(c) =>
              (http_pc' = "serving" /\ http_sock' = "listening" /\ http_closes' = 0)
       ]_vars
    /\ [](\A c \in Conns :
              (http_pc = "serving" /\ active = {} /\ conns[c].state = "queued") =>
                  ENABLED HttpAccept(c))

\* a handler raised, and the request of the connection served after it was
\* answered
C9_Witness ==
    /\ Len(served) = 2
    /\ conns[served[1]].raised # "none"
    /\ conns[served[2]].state = "done"
    /\ conns[served[2]].raised = "none"
    /\ Calls(conns[served[2]].events, "send_response") # {}

\* C10 as claimed: while the request of one connection is being handled, the
\* server can accept the request of another connection.
C10_Overlap ==
    \A c \in Conns :
        (http_pc = "serving" /\ active # {} /\ conns[c].state = "queued") =>
            ENABLED HttpAccept(c)

\* C10, amended: the HTTP server handles one connection at a time: at most
\* one request is being handled, and while it is (its body not arrived, for
\* one) no request of another connection is accepted; it waits until the
\* handler has ended.
C10_OneAtATime ==
    /\ Cardinality(active) <= 1
    /\ \A c \in Conns : conns[c].state = "handling" <=> c \in active
    /\ \A c \in Conns :
          (active # {} /\ conns[c].state = "queued") => ~ENABLED HttpAccept(c)

\* a POST waits for its body while the complete request of another connection
\* waits to be accepted
C10_Witness ==
    \E c \in Conns, b \in Conns :
        /\ c \in active
        /\ Blocked(conns[c])
        /\ conns[b].state = "queued"
        /\ conns[b].arrived

(***************************** both servers *******************************)
\* a step in which run_http_server leaves serve_forever or ends
HttpEnds == http_pc' # http_pc /\ http_pc' \in {"caught", "exited"}

\* a step in which run_socket_server fails to bind, leaves its loop or ends
UdpEnds == udp_pc' # udp_pc /\ udp_pc' \in {"Stopped", "Failed", "Exited"}

HttpDown == http_pc \in {"caught", "exited"}

UdpDown == udp_pc \in {"Stopped", "Failed", "Exited"}

\* the handler of connection c can end now with the answer its request gets
\* from a server that works: some outcome of its send lets a POST be relayed
\* and redirected
CanAnswer(c) ==
    /\ http_pc = "serving"
    /\ \E sendOk \in SendOutcomes(udp_sock) :
          \E r \in {Handle(conns[c].req, sendOk)} :
              /\ r.raised = "none"
              /\ conns[c].req.method = "POST" =>
                    RelayedThenRedirected(r.events, BodyRead(conns[c].req))

\* the handler of connection c ends in this step
HandlerEnds(c) == conns[c].state = "handling" /\ conns'[c].state = "done"

\* the listener ends the save of a datagram in this step
SaveEnds == Len(log') = Len(log) + 1

\* C11: started without flags, the two servers fail apart: a step that ends
\* the HTTP server (interrupt, error, close) leaves every variable of the
\* listener and its queue as they were, and after it the listener still
\* receives the queued datagrams and inserts the well-formed ones; a step that
\* ends the listener (a failed bind included) leaves every variable of the
\* HTTP server as it was, and after it the HTTP server still accepts
\* connections, answers GET without an exception and can relay and redirect
\* every readable POST.
C11_Isolated ==
    /\ [](args = {} =>
            /\ (HttpDown /\ udp_pc = "Listening" /\ net # <<>> /\ Len(log) < MaxRecv)
                  => ENABLED UdpRecv
            /\ (UdpDown /\ http_pc = "serving") =>
                  /\ \A c \in active :
                        (~Blocked(conns[c])
                           /\ SizeReadable(conns[c].req)
                           /\ Utf8Valid(BodyRead(conns[c].req))) => CanAnswer(c)
                  /\ \A c \in Conns :
                        (conns[c].state = "queued" /\ active = {})
                            => ENABLED HttpAccept(c))
    /\ [][args = {} =>
            /\ HttpEnds => UNCHANGED <<udpVars, net>>
            /\ UdpEnds => UNCHANGED httpVars
            /\ (HttpDown /\ SaveEnds) =>
                  /\ udp_pc' = "Listening"
                  /\ (HasGoodPair(data) /\ ~HasBarePair(data)
                         /\ Last(log').exc \notin StoreFailures)
                        => Len(messages') = Len(messages) + 1
            /\ \A c \in Conns :
                  (UdpDown /\ HandlerEnds(c)) =>
                      /\ http_pc' = "serving"
                      /\ conns[c].req.method = "GET" => conns'[c].raised = "none"
                      /\ (PostDone(c)' /\ conns'[c].raised = "none") =>
                            RelayedThenRedirected(conns'[c].events,
                                                  BodyRead(conns[c].req))]_vars

\* the listener failed to bind and is gone while the HTTP server, started with
\* it, is handling a POST
C11_Witness ==
    /\ args = {}
    /\ udp_pc = "Exited"
    /\ udp_exc = "OSError"
    /\ http_pc = "serving"
    /\ \E c \in active : conns[c].req.method = "POST" /\ ~Blocked(conns[c])

\* the command line was dealt with
Launched == main_pc # "start"

\* C12: the program starts exactly the servers its flags select: --http the
\* HTTP server only, --socket the listener only, no flag both of them, and both
\* flags none: the error is logged and neither a listening socket nor a
\* datagram socket nor a client of the database is ever made; a server that
\* was not started never gets a socket.
C12_OnlySelected ==
    /\ ~Launched => (http_pc = "off" /\ udp_pc = "off")
    /\ Launched =>
          /\ http_pc # "off" <=> args \in {{"http"}, {}}
          /\ udp_pc # "off" <=> args \in {{"socket"}, {}}
          /\ main_pc = "usage" <=> args = {"http", "socket"}
    /\ http_pc = "off" =>
          /\ http_sock = "none"
          /\ \A c \in Conns : conns[c].state = "idle"
    /\ udp_pc = "off" =>
          /\ udp_sock = "none"
          /\ client = "none"
          /\ net = <<>>
          /\ messages = <<>>

\* both flags were given: the error was logged and nothing runs
C12_Witness ==
    /\ args = {"http", "socket"}
    /\ main_pc = "usage"
    /\ http_pc = "off"
    /\ udp_pc = "off"

(***************************** GET ****************************************)
\* the handler of connection c has ended and its request was a GET
GetDone(c) == conns[c].state = "done" /\ conns[c].req.method = "GET"

\* the answer of a handler: this status, and this body written after the
\* headers, with no exception
Answered(conn, status, body) ==
    /\ conn.raised = "none"
    /\ Cardinality(Calls(conn.events, "send_response")) = 1
    /\ \A i \in Calls(conn.events, "send_response") : conn.events[i].arg = <<status>>
    /\ Cardinality(Calls(conn.events, "write")) = 1
    /\ \A i \in Calls(conn.events, "write") :
          /\ conn.events[i].arg = body
          /\ \A j \in Calls(conn.events, "end_headers") : j < i

\* the name under BASE_DIR a request target with a path other than / asks for
NameOf(target) == Drop(UrlPath(target), 1)

\* C13 as claimed: a GET of a path other than / is answered 200 with the bytes
\* of the file when the path resolves to an existing file, and 404 with the
\* body of error.html when it resolves to no file: to nothing, or to a
\* directory.
C13_FileOr404 ==
    \A c \in Conns :
        (GetDone(c) /\ UrlPath(conns[c].req.target) # SLASH) =>
            LET name == NameOf(conns[c].req.target)
            IN  IF name \in DOMAIN BaseDir /\ BaseDir[name].kind = "file"
                THEN Answered(conns[c], 200, BaseDir[name].bytes)
                ELSE Answered(conns[c], 404, Templates["error.html"])

\* a request target whose path component is /: the / alone, or followed by a
\* query string or a fragment
IsRootTarget(t) ==
    /\ t # <<>>
    /\ t[1] = SLASH[1]
    /\ Len(t) > 1 => t[2] \in {Ord("?"), Ord("#")}

\* C14: a GET whose path component is / is answered 200 with the bytes of
\* index.html whatever its query string, so that any two such requests get
\* the same answer, and nothing of BASE_DIR is ever looked up or written for
\* it.
C14_RootIgnoresQuery ==
    \A c \in Conns :
        (GetDone(c) /\ IsRootTarget(conns[c].req.target)) =>
            /\ Answered(conns[c], 200, Templates["index.html"])
            /\ conns[c].events = send_html("index.html", 200).events
            /\ \A b \in Conns :
                  (GetDone(b) /\ IsRootTarget(conns[b].req.target)) =>
                      conns[b].events = conns[c].events

\* / was asked for with a query string and without one, and both were answered
C14_Witness ==
    \E c, b \in Conns :
        /\ GetDone(c) /\ conns[c].req.target = SLASH
        /\ GetDone(b) /\ IsRootTarget(conns[b].req.target)
        /\ Len(conns[b].req.target) > 2
        /\ Answered(conns[b], 200, Templates["index.html"])

(***************************** the collection *****************************)
\* s is t with nothing or with elements added at its end
IsPrefix(s, t) == Len(s) <= Len(t) /\ SubSeq(t, 1, Len(s)) = s

\* C15: the collection is written by insertion only: every step leaves it as
\* it was or adds exactly one document at its end, so that it never shrinks
\* and a document once inserted stays in it, at its place and unchanged,
\* across failed saves, interrupts and the end of the listener.
C15_WriteOnce ==
    [][ /\ IsPrefix(messages, messages')
        /\ Len(messages') <= Len(messages) + 1
        /\ Len(messages') = Len(messages) + 1 => udp_pc = "Saving" ]_vars

\* two documents are stored and the listener has ended
C15_Witness ==
    /\ Len(messages) = 2
    /\ messages[1] # messages[2]
    /\ udp_pc = "Exited"

(***************************** the receive loop ***************************)
\* the saves that inserted a document, in the order of the receives
Inserting == { i \in 1..Len(log) : log[i].at > 0 }

\* C16: the listener deals with one datagram at a time: while a save is under
\* way (a stalled insert included) no datagram is received, the datagrams that
\* wait stay queued and the one being saved is not replaced; every save ends
\* before the next receive; and the documents are in the collection in the
\* order in which their datagrams were received.
C16_OneDatagramAtATime ==
    /\ [](udp_pc = "Saving" => ~ENABLED UdpRecv)
    /\ [][udp_pc = "Saving" =>
             /\ udp_pc' = "Saving" => (data' = data /\ log' = log)
             /\ SaveEnds => (log'[Len(log')].data = data /\ udp_pc' # "Saving")]_vars
    /\ [](\A i, j \in Inserting : i < j => log[i].at < log[j].at)
    /\ [](\A n \in 1..Len(messages) : \E i \in Inserting : log[i].at = n)

\* a datagram is being saved while another waits in the queue of the socket
\* and one was saved before it
C16_Witness ==
    /\ udp_pc = "Saving"
    /\ net # <<>>
    /\ Len(log) = 1
    /\ Len(log) < MaxRecv

(***************************** end to end *********************************)
\* the POST requests whose handler has ended
PostsHandled == { c \in Conns : PostDone(c) }

\* the datagrams the listener has taken from its socket and still knows of:
\* the ones it saved and the one it is saving
Taken == Len(log) + (IF udp_pc = "Saving" THEN 1 ELSE 0)

\* C17: from the browser to the collection everything happens at most once:
\* a POST sends at most one datagram; the datagrams that wait on the
\* listener's socket and the ones it has received are together no more than
\* the POST requests handled; the documents are no more than the datagrams
\* received; and every save inserts at most one document, no two saves the
\* same one.
C17_AtMostOnce ==
    /\ [](/\ \A c \in PostsHandled : Cardinality(Calls(conns[c].events, "sendto")) <= 1
          /\ Len(net) + Taken <= Cardinality(PostsHandled)
          /\ Len(messages) <= Len(log)
          /\ Len(messages) = Cardinality(Inserting)
          /\ \A i, j \in Inserting : log[i].at = log[j].at => i = j)
    /\ [][ /\ Len(messages') <= Len(messages) + 1
           /\ Len(messages') > Len(messages) => SaveEnds
           /\ Len(net') + Taken' > Len(net) + Taken =>
                 \E c \in Conns : HandlerEnds(c) /\ PostDone(c)' ]_vars

\* two POST requests were handled and their two datagrams received; one of
\* them became a document, the other did not
C17_Witness ==
    /\ Cardinality(PostsHandled) = 2
    /\ Len(log) = 2
    /\ Len(messages) = 1

(***************************** the relay socket ***************************)
\* the relay sockets a handler opened and did not close
OpenSockets(events) ==
    Cardinality(Calls(events, "socket")) - Cardinality(Calls(events, "close"))

\* C18 as claimed: when the handler of a POST has ended, normally or with an
\* exception of the decoding of the body or of the send, it has closed every
\* relay socket it opened.
C18_RelaySocketClosed ==
    \A c \in Conns : PostDone(c) => OpenSockets(conns[c].events) = 0

(***************************** the listener's states **********************)
\* the state of the listener: the loop is Listening also while it saves
Phase(pc) == IF pc = "Saving" THEN "Listening" ELSE pc

\* the moves of the listener; Exited is the end of run_socket_server
Moves ==
    { <<"off", "Starting">>, <<"Starting", "Bound">>, <<"Bound", "Listening">>,
      <<"Listening", "Stopped">>, <<"Listening", "Failed">>,
      <<"Starting", "Exited">>, <<"Bound", "Exited">>,
      <<"Stopped", "Exited">>, <<"Failed", "Exited">> }

BindFailed == udp_exc = "OSError"

\* C19: the listener only moves Starting, Bound, Listening and then Stopped
\* or Failed, or ends; from Stopped and Failed it only ends, and once it has
\* left a state it never comes back to it, so that the bind is tried once and
\* Listening is never entered again; and when the bind has failed the
\* listener has ended with its socket closed, was never Listening, received
\* nothing and never made a client of the database.
C19_ListenerStates ==
    /\ [][ /\ Phase(udp_pc') # Phase(udp_pc) =>
                <<Phase(udp_pc), Phase(udp_pc')>> \in Moves
           /\ udp_pc = "Starting" => udp_pc' # "Starting" \/ UNCHANGED udpVars
           /\ udp_pc \in {"Stopped", "Failed"} =>
                 udp_pc' \in {udp_pc, "Exited"}
           /\ udp_pc = "Exited" => UNCHANGED udpVars ]_vars
    /\ [](BindFailed =>
            /\ udp_pc = "Exited"
            /\ udp_sock = "closed"
            /\ client = "none"
            /\ client_closes = 0
            /\ log = <<>>
            /\ messages = <<>>)

\* the bind failed: the listener has ended and its socket is closed
C19_Witness ==
    /\ BindFailed
    /\ udp_pc = "Exited"
    /\ udp_sock = "closed"
    /\ client = "none"

(***************************** the empty body *****************************)
\* the handler of connection c read an empty body: Content-Length is 0 or
\* the header is absent
ReadNothing(c) ==
    /\ SizeReadable(conns[c].req)
    /\ Size(conns[c].req) = 0

\* C20: a POST with Content-Length 0 or without the header, unless its send
\* fails, sends exactly one datagram, which is empty, and is answered 302
\* with Location: /; the listener rejects every empty datagram as malformed:
\* the save ends with the parsing error logged, no document inserted and the
\* listener back in its loop.
C20_EmptyBody ==
    /\ [](\A c \in Conns :
             (PostDone(c) /\ ReadNothing(c) /\ conns[c].raised # "OSError") =>
                 /\ conns[c].raised = "none"
                 /\ RelayedThenRedirected(conns[c].events, <<>>))
    /\ [][(SaveEnds /\ data = <<>>) =>
             /\ messages' = messages
             /\ udp_pc' = "Listening"
             /\ Last(log').exc = "ValueError"
             /\ Last(log').logged = "Data parsing error"
             /\ Last(log').at = 0]_vars

\* a POST without Content-Length was answered, its empty datagram was
\* received and rejected, and the listener is in its loop
C20_Witness ==
    /\ \E c \in Conns :
          /\ PostDone(c)
          /\ ~conns[c].req.has_cl
          /\ RelayedThenRedirected(conns[c].events, <<>>)
    /\ \E i \in 1..Len(log) : log[i].data = <<>> /\ log[i].exc = "ValueError"
    /\ messages = <<>>
    /\ udp_pc = "Listening"

====
